---- MODULE Spec2Model ----
(***************************************************************************)
(* Model of pylib.storage.cache (AbsCache, MemoryCache, HybridCache) and   *)
(* of the part of pylib.storage.io it calls.                               *)
(*                                                                         *)
(* A Python dict of records is an insertion-ordered sequence of            *)
(* <<key, cell>> pairs.  A record (the inner dict) is a function whose     *)
(* domain is a subset of {"v", "cache_time"}.  A cell is the reference the *)
(* store keeps: either a dict no one else holds ("own", kept inline) or    *)
(* one of the caller's long-lived dict objects (kept in heap), since       *)
(* _set stamps and stores the caller's object itself, without copying.     *)
(***************************************************************************)
EXTENDS Integers, Sequences, FiniteSets, TLC

VARIABLES now, seconds, alive, cache, heap, file, wtime, synced, last,
          lock, pc, job, obs, hist

vars == <<now, seconds, alive, cache, heap, file, wtime, synced, last,
          lock, pc, job, obs, hist>>

mtvars == <<lock, pc, job, obs, hist>>

(* ------------------------------ bounds -------------------------------- *)
MaxClock == 2
MaxTTL == 1
MaxBatch == 2

Keys == {"a", "b"}
Objs == {"o1"}
Own == "own"

(* ------------------------------ records ------------------------------- *)
key_cache == "cache_time"

EmptyRec == [f \in {} |-> 0]

Rec(v) == [f \in {"v"} |-> v]

RecT(v, t) == [f \in {"v", key_cache} |-> IF f = key_cache THEN t ELSE v]

\* bool(value) of a dict: non-empty
Truthy(r) == DOMAIN r # {}

\* value[key_cache] = t
Stamp(r, t) == [f \in DOMAIN r \cup {key_cache} |-> IF f = key_cache THEN t ELSE r[f]]

(* ------------------------- insertion-ordered dict --------------------- *)
DKeys(d) == [i \in 1..Len(d) |-> d[i][1]]

DKeySet(d) == {d[i][1] : i \in 1..Len(d)}

DHas(d, k) == \E i \in 1..Len(d) : d[i][1] = k

DIdx(d, k) == CHOOSE i \in 1..Len(d) : d[i][1] = k

DGet(d, k) == d[DIdx(d, k)][2]

DPut(d, k, v) == IF DHas(d, k) THEN [d EXCEPT ![DIdx(d, k)] = <<k, v>>]
                 ELSE Append(d, <<k, v>>)

DDel(d, k) == SelectSeq(d, LAMBDA e : e[1] # k)

(* ------------------------------- cells -------------------------------- *)
OwnCell(r) == [obj |-> Own, rec |-> r]

RefCell(o) == [obj |-> o, rec |-> EmptyRec]

\* the record a cell refers to
Deref(st, cell) == IF cell.obj = Own THEN cell.rec ELSE st.h[cell.obj]

\* the store's mapping by value: what copy() shows, what save would serialise
View(st) == [i \in 1..Len(st.c) |-> <<st.c[i][1], Deref(st, st.c[i][2])>>]

ViewMap(st) == [k \in DKeySet(st.c) |-> Deref(st, DGet(st.c, k))]

(* ------------------------------ AbsCache ------------------------------ *)
\* ts_expire: assert seconds >= 0; now() - seconds
ts_expire(s, t) == [exc |-> IF s >= 0 THEN "none" ELSE "AssertionError", val |-> t - s]

\* variant: the boundary compared with < instead of <=
is_expired_strict(item, s, t) ==
    LET e == ts_expire(s, t) IN
    IF e.exc # "none" THEN [exc |-> e.exc, val |-> FALSE]
    ELSE IF key_cache \notin DOMAIN item THEN [exc |-> "KeyError", val |-> FALSE]
    ELSE [exc |-> "none", val |-> item[key_cache] < e.val]

is_expired(item, s, t) ==
    LET e == ts_expire(s, t) IN
    IF e.exc # "none" THEN [exc |-> e.exc, val |-> FALSE]
    ELSE IF key_cache \notin DOMAIN item THEN [exc |-> "KeyError", val |-> FALSE]
    ELSE [exc |-> "none", val |-> item[key_cache] <= e.val]

(* ----------------------------- MemoryCache ---------------------------- *)
\* a store state st is [c |-> the _cache dict, h |-> the caller's objects,
\* w |-> for each key the clock at the _set that stored its record (-1: not stored by _set)];
\* w is history kept for the properties, the code has no such field
Res(st, ret, exc) == [st |-> st, ret |-> ret, exc |-> exc]

_delete(st, key) ==
    IF DHas(st.c, key)
    THEN Res([st EXCEPT !.c = DDel(st.c, key), !.w = [@ EXCEPT ![key] = -1]], 1, "none")
    ELSE Res(st, 0, "none")

\* value[self.key_cache] = self.now(); self._cache[key] = value
_set(st, key, value, t) ==
    IF value.obj = Own
    THEN Res([st EXCEPT !.c = DPut(st.c, key, OwnCell(Stamp(value.rec, t))),
                        !.w = [@ EXCEPT ![key] = t]], 0, "none")
    ELSE Res([c |-> DPut(st.c, key, value),
              h |-> [st.h EXCEPT ![value.obj] = Stamp(@, t)],
              w |-> [st.w EXCEPT ![key] = t]], 0, "none")

\* variant: an expired record is reported absent but left in the mapping
_get_keepexpired(st, key, s, t) ==
    LET value == IF DHas(st.c, key) THEN Deref(st, DGet(st.c, key)) ELSE EmptyRec
        e == is_expired(value, s, t)
    IN  IF ~Truthy(value) THEN Res(st, value, "none")
        ELSE IF e.exc = "AssertionError" THEN Res(st, EmptyRec, e.exc)
        ELSE IF e.exc = "KeyError" THEN Res(st, EmptyRec, "none")
        ELSE IF e.val THEN Res(st, EmptyRec, "none")
        ELSE Res(st, value, "none")

\* variant: without the try/except, the KeyError reaches the caller
_get_notry(st, key, s, t) ==
    LET value == IF DHas(st.c, key) THEN Deref(st, DGet(st.c, key)) ELSE EmptyRec
        e == is_expired(value, s, t)
    IN  IF ~Truthy(value) THEN Res(st, value, "none")
        ELSE IF e.exc # "none" THEN Res(st, EmptyRec, e.exc)
        ELSE IF e.val THEN Res(_delete(st, key).st, EmptyRec, "KeyError")
        ELSE Res(st, value, "none")

\* variant: a valid read restamps the record (sliding expiry)
_get_touch(st, key, s, t) ==
    LET value == IF DHas(st.c, key) THEN Deref(st, DGet(st.c, key)) ELSE EmptyRec
        e == is_expired(value, s, t)
    IN  IF ~Truthy(value) THEN Res(st, value, "none")
        ELSE IF e.exc = "AssertionError" THEN Res(st, EmptyRec, e.exc)
        ELSE IF e.exc = "KeyError" THEN Res(st, EmptyRec, "none")
        ELSE IF e.val THEN Res(_delete(st, key).st, EmptyRec, "none")
        ELSE Res([st EXCEPT !.c = DPut(st.c, key, OwnCell(Stamp(value, t)))],
                 Stamp(value, t), "none")

_get(st, key, s, t) ==
    LET value == IF DHas(st.c, key) THEN Deref(st, DGet(st.c, key)) ELSE EmptyRec
        e == is_expired(value, s, t)
    IN  IF ~Truthy(value) THEN Res(st, value, "none")
        ELSE IF e.exc = "AssertionError" THEN Res(st, EmptyRec, e.exc)
        ELSE IF e.exc = "KeyError" THEN Res(st, EmptyRec, "none")
        ELSE IF e.val THEN Res(_delete(st, key).st, EmptyRec, "none")
        ELSE Res(st, value, "none")

_has(st, key, s, t) ==
    LET g == _get(st, key, s, t) IN Res(g.st, Truthy(g.ret), g.exc)

\* variant: force is ignored
_add_noforce(st, key, value, force, s, t) ==
    LET h == _has(st, key, s, t) IN
    IF h.exc # "none" THEN Res(h.st, 0, h.exc)
    ELSE IF h.ret THEN Res(h.st, 0, "none")
    ELSE _set(h.st, key, value, t)

\* variant: the test of _has is inverted
_add_inverted(st, key, value, force, s, t) ==
    LET h == _has(st, key, s, t) IN
    IF h.exc # "none" THEN Res(h.st, 0, h.exc)
    ELSE IF ~h.ret /\ ~force THEN Res(h.st, 0, "none")
    ELSE _set(h.st, key, value, t)

\* variant: the value is stamped before the test of _has
_add_stampfirst(st, key, value, force, s, t) ==
    LET h == _has(st, key, s, t)
        stamped == IF value.obj = Own THEN h.st
                   ELSE [h.st EXCEPT !.h = [@ EXCEPT ![value.obj] = Stamp(@, t)]]
    IN  IF h.exc # "none" THEN Res(h.st, 0, h.exc)
        ELSE IF h.ret /\ ~force THEN Res(stamped, 0, "none")
        ELSE _set(h.st, key, value, t)

_add(st, key, value, force, s, t) ==
    LET h == _has(st, key, s, t) IN
    IF h.exc # "none" THEN Res(h.st, 0, h.exc)
    ELSE IF h.ret /\ ~force THEN Res(h.st, 0, "none")
    ELSE _set(h.st, key, value, t)

\* for key, value in items.items(): self._set(key, value)
RECURSIVE _set_many(_, _, _)
_set_many(st, items, t) ==
    IF items = << >> THEN Res(st, 0, "none")
    ELSE _set_many(_set(st, Head(items)[1], Head(items)[2], t).st, Tail(items), t)

RECURSIVE _add_many(_, _, _, _, _)
_add_many(st, items, force, s, t) ==
    IF items = << >> THEN Res(st, 0, "none")
    ELSE LET a == _add(st, Head(items)[1], Head(items)[2], force, s, t) IN
         IF a.exc # "none" THEN a
         ELSE _add_many(a.st, Tail(items), force, s, t)

RECURSIVE _delete_many(_, _, _)
_delete_many(st, keys, count) ==
    IF keys = << >> THEN Res(st, count, "none")
    ELSE LET d == _delete(st, Head(keys)) IN
         _delete_many(d.st, Tail(keys), count + d.ret)

\* for key in self.keys(): value = self._cache[key]; if expired: count += _delete
RECURSIVE PruneLoop(_, _, _, _, _)
PruneLoop(st, keys, count, s, t) ==
    IF keys = << >> THEN Res(st, count, "none")
    ELSE LET e == is_expired(Deref(st, DGet(st.c, Head(keys))), s, t) IN
         IF e.exc # "none" THEN Res(st, count, e.exc)
         ELSE IF e.val
              THEN PruneLoop(_delete(st, Head(keys)).st, Tail(keys), count + 1, s, t)
              ELSE PruneLoop(st, Tail(keys), count, s, t)

\* variant: the sweep stops after the first key
_prune_one(st, s, t) ==
    PruneLoop(st, IF st.c = << >> THEN << >> ELSE <<st.c[1][1]>>, 0, s, t)

_prune(st, s, t) == PruneLoop(st, DKeys(st.c), 0, s, t)

_clear(st) == Res([st EXCEPT !.c = << >>, !.w = [k \in DOMAIN @ |-> -1]], 0, "none")

\* variant: size never prunes
_size_noprune(st, prune, s, t) == Res(st, Len(st.c), "none")

\* size(prune): if prune: self._prune(); return len(self._cache)
_size(st, prune, s, t) ==
    LET p == IF prune THEN _prune(st, s, t) ELSE Res(st, 0, "none") IN
    IF p.exc # "none" THEN p ELSE Res(p.st, Len(p.st.c), "none")

(* ------------------------------ IO (io.py) ---------------------------- *)
\* a file is [kind |-> "none" | "dict" | "list", data |-> the JSON document]
NoFile == [kind |-> "none", data |-> << >>]

DictFile(d) == [kind |-> "dict", data |-> d]

ListFile(l) == [kind |-> "list", data |-> l]

\* IO.load_dict: the parsed document if it is a JSON object, else ValueError
load_dict(f) ==
    IF f.kind = "dict" THEN [exc |-> "none", val |-> f.data]
    ELSE [exc |-> "ValueError", val |-> << >>]

\* IO.save_dict(file, item, encoding): the parameter names of the def
save_dict_params == {"file", "item", "encoding"}

\* IO.save_dict's body: the document written over the file
save_dict(item) == DictFile(item)

\* a call with keyword arguments binds only names the def declares (TypeError otherwise)
Binds(params, kwargs) == kwargs \subseteq params

(* ------------------------------ HybridCache --------------------------- *)
\* the dict IO.load_dict returns: fresh dict objects, held by the store alone
Loaded(d) == [i \in 1..Len(d) |-> <<d[i][1], OwnCell(d[i][2])>>]

\* variant: a document of the wrong shape is taken as no content and empties the store
_load_swallow(st, f) ==
    IF f.kind = "none" THEN Res(st, Len(st.c) > 0, "none")
    ELSE LET l == load_dict(f) IN
         Res([st EXCEPT !.c = Loaded(l.val), !.w = [k \in DOMAIN @ |-> -1]],
             Len(l.val) > 0, "none")

\* _load: if self._file.is_file(): self._cache = IO.load_dict(self._file); return bool(self._cache)
_load(st, f) ==
    IF f.kind = "none" THEN Res(st, Len(st.c) > 0, "none")
    ELSE LET l == load_dict(f) IN
         IF l.exc # "none" THEN Res(st, FALSE, l.exc)
         ELSE Res([st EXCEPT !.c = Loaded(l.val), !.w = [k \in DOMAIN @ |-> -1]],
                  Len(l.val) > 0, "none")

\* variant: load never prunes
load_noprune(st, f, prune, s, t) == _load(st, f)

\* load(prune): loaded = _load(); if prune: _prune(); return bool(_cache); return loaded
load(st, f, prune, s, t) ==
    LET l == _load(st, f) IN
    IF l.exc # "none" \/ ~prune THEN l
    ELSE LET p == _prune(l.st, s, t) IN
         IF p.exc # "none" THEN p ELSE Res(p.st, Len(p.st.c) > 0, "none")

\* the keyword names _save passes to IO.save_dict
_save_kwargs == {"file_name", "file_data"}

\* _save: result is [st, ret, exc, file]
_save(st, f) ==
    IF Len(st.c) > 0
    THEN IF Binds(save_dict_params, _save_kwargs)
         THEN [st |-> st, ret |-> TRUE, exc |-> "none", file |-> save_dict(View(st))]
         ELSE [st |-> st, ret |-> FALSE, exc |-> "TypeError", file |-> f]
    ELSE [st |-> st, ret |-> TRUE, exc |-> "none", file |-> NoFile]

save(st, f, prune, s, t) ==
    LET p == IF prune THEN _prune(st, s, t) ELSE Res(st, 0, "none") IN
    IF p.exc # "none" THEN [st |-> p.st, ret |-> FALSE, exc |-> p.exc, file |-> f]
    ELSE _save(p.st, f)

(* ------------------- one caller, one HybridCache ---------------------- *)
\* A MemoryCache is the same store with no file and neither load nor save.
St == [c |-> cache, h |-> heap, w |-> wtime]

NoWrite == [k \in Keys |-> -1]

\* what the caller last called and got back; "was" is the store by value before the call
\* the call; "synced": a save() was the store's last call before this one
Idle == [op |-> "idle", args |-> << >>, ret |-> 0, exc |-> "none",
         was |-> << >>, synced |-> FALSE]

\* the values a caller passes: a new dict {"v": "x"}, or its long-lived dict object,
\* which starts as {"v": "z", "cache_time": 0}
ValArgs == {OwnCell(Rec("x"))} \cup {RefCell(o) : o \in Objs}

\* batches: sequences of <<key, value>> with distinct keys, as dict.items() yields
Batches ==
    {<<e>> : e \in Keys \X ValArgs} \cup
    {b \in (Keys \X ValArgs) \X (Keys \X ValArgs) : b[1][1] # b[2][1] /\ MaxBatch >= 2}

KeyLists == {<<k>> : k \in Keys} \cup {l \in Keys \X Keys : MaxBatch >= 2}

\* the backing file before the first construction: absent, not a JSON object, or an
\* object whose records were stamped at 0 or 1, or carry no cache_time, or are empty
InitFiles ==
    { NoFile,
      ListFile(<<RecT("f", 0)>>),
      DictFile(<< >>),
      DictFile(<<<<"a", RecT("f", 0)>>, <<"b", RecT("f", 1)>>>>),
      DictFile(<<<<"b", RecT("f", 1)>>>>),
      DictFile(<<<<"a", Rec("f")>>, <<"b", RecT("f", 0)>>>>),
      DictFile(<<<<"a", RecT("f", 1)>>, <<"b", EmptyRec>>>>) }

Done(r, op, args) ==
    /\ last.op = "idle"
    /\ cache' = r.st.c
    /\ heap' = r.st.h
    /\ wtime' = r.st.w
    /\ synced' = (op = "save")
    /\ last' = [op |-> op, args |-> args, ret |-> r.ret, exc |-> r.exc,
                was |-> ViewMap(St), synced |-> synced]

Init ==
    /\ now = 0
    /\ seconds \in -1..MaxTTL
    /\ alive = FALSE
    /\ cache = << >>
    /\ heap = [o \in Objs |-> RecT("z", 0)]
    /\ file \in InitFiles
    /\ wtime = NoWrite
    /\ synced = FALSE
    /\ last = Idle
    /\ lock = 0 /\ pc = 0 /\ job = 0 /\ obs = 0 /\ hist = 0

\* the clock of now() moves on between calls
Tick ==
    /\ last.op = "idle"
    /\ now < MaxClock
    /\ now' = now + 1
    /\ UNCHANGED <<seconds, alive, cache, heap, file, wtime, synced, last, mtvars>>

\* the caller takes the result and goes on
Return ==
    /\ last.op # "idle"
    /\ last' = Idle
    /\ UNCHANGED <<now, seconds, alive, cache, heap, file, wtime, synced, mtvars>>

\* HybridCache.__init__: self._cache = {}; self.load()
Construct ==
    LET r == load([c |-> << >>, h |-> heap, w |-> NoWrite], file, TRUE, seconds, now) IN
    /\ Done(r, "init", << >>)
    /\ alive' = (r.exc = "none")
    /\ UNCHANGED <<now, seconds, file, mtvars>>

Set ==
    \E k \in Keys, v \in ValArgs :
        /\ alive
        /\ Done(_set(St, k, v, now), "set", [key |-> k, value |-> v])
        /\ UNCHANGED <<now, seconds, alive, file, mtvars>>

SetMany ==
    \E items \in Batches :
        /\ alive
        /\ Done(_set_many(St, items, now), "set_many", [items |-> items])
        /\ UNCHANGED <<now, seconds, alive, file, mtvars>>

Add ==
    \E k \in Keys, v \in ValArgs, force \in BOOLEAN :
        /\ alive
        /\ Done(_add(St, k, v, force, seconds, now), "add",
                [key |-> k, value |-> v, force |-> force])
        /\ UNCHANGED <<now, seconds, alive, file, mtvars>>

AddMany ==
    \E items \in Batches, force \in BOOLEAN :
        /\ alive
        /\ Done(_add_many(St, items, force, seconds, now), "add_many",
                [items |-> items, force |-> force])
        /\ UNCHANGED <<now, seconds, alive, file, mtvars>>

Get ==
    \E k \in Keys :
        /\ alive
        /\ Done(_get(St, k, seconds, now), "get", [key |-> k])
        /\ UNCHANGED <<now, seconds, alive, file, mtvars>>

Has ==
    \E k \in Keys :
        /\ alive
        /\ Done(_has(St, k, seconds, now), "has", [key |-> k])
        /\ UNCHANGED <<now, seconds, alive, file, mtvars>>

Delete ==
    \E k \in Keys :
        /\ alive
        /\ Done(_delete(St, k), "delete", [key |-> k])
        /\ UNCHANGED <<now, seconds, alive, file, mtvars>>

DeleteMany ==
    \E keys \in KeyLists :
        /\ alive
        /\ Done(_delete_many(St, keys, 0), "delete_many", [keys |-> keys])
        /\ UNCHANGED <<now, seconds, alive, file, mtvars>>

Prune ==
    /\ alive
    /\ Done(_prune(St, seconds, now), "prune", << >>)
    /\ UNCHANGED <<now, seconds, alive, file, mtvars>>

Size ==
    \E prune \in BOOLEAN :
        /\ alive
        /\ Done(_size(St, prune, seconds, now), "size", [prune |-> prune])
        /\ UNCHANGED <<now, seconds, alive, file, mtvars>>

\* variant: clear also removes the backing file
Clear_unlink ==
    /\ alive
    /\ Done(_clear(St), "clear", << >>)
    /\ file' = NoFile
    /\ UNCHANGED <<now, seconds, alive, mtvars>>

Clear ==
    /\ alive
    /\ Done(_clear(St), "clear", << >>)
    /\ UNCHANGED <<now, seconds, alive, file, mtvars>>

Load ==
    \E prune \in BOOLEAN :
        /\ alive
        /\ Done(load(St, file, prune, seconds, now), "load", [prune |-> prune])
        /\ UNCHANGED <<now, seconds, alive, file, mtvars>>

Save ==
    \E prune \in BOOLEAN :
        LET r == save(St, file, prune, seconds, now) IN
        /\ alive
        /\ Done(r, "save", [prune |-> prune])
        /\ file' = r.file
        /\ UNCHANGED <<now, seconds, alive, mtvars>>

\* copy(), keys(), values(), items(): each returns from self._cache.copy()
CopyViews ==
    \E op \in {"copy", "keys", "values", "items"} :
        LET c == View(St)
            ret == CASE op = "keys" -> DKeys(c)
                     [] op = "values" -> [i \in 1..Len(c) |-> c[i][2]]
                     [] OTHER -> c
        IN  /\ alive
            /\ Done(Res(St, ret, "none"), op, << >>)
            /\ UNCHANGED <<now, seconds, alive, file, mtvars>>

Next ==
    \/ Tick \/ Return \/ Construct
    \/ Set \/ SetMany \/ Add \/ AddMany
    \/ Get \/ Has \/ Delete \/ DeleteMany
    \/ Prune \/ Size \/ Clear \/ Load \/ Save
    \/ CopyViews

Spec == Init /\ [][Next]_vars

(* --------------------- the pure expiry test alone --------------------- *)
ExpItems ==
    {RecT(v, t) : v \in {"x", "z"}, t \in 0..(MaxClock + 1)} \cup {Rec("x"), Rec("z"), EmptyRec}

ExpInit ==
    /\ now \in 0..MaxClock
    /\ seconds = 0
    /\ alive = FALSE
    /\ cache = << >>
    /\ heap = [o \in Objs |-> RecT("z", 0)]
    /\ file = NoFile
    /\ wtime = NoWrite
    /\ synced = FALSE
    /\ last = Idle
    /\ lock = 0 /\ pc = 0 /\ job = 0 /\ obs = 0 /\ hist = 0

\* AbsCache.is_expired(item, seconds), a classmethod: callable with any TTL
IsExpired ==
    \E item \in ExpItems, s \in -1..(MaxTTL + 1) :
        LET e == is_expired(item, s, now) IN
        /\ last.op = "idle"
        /\ last' = [op |-> "is_expired", args |-> [item |-> item, seconds |-> s],
                    ret |-> e.val, exc |-> e.exc, was |-> << >>, synced |-> FALSE]
        /\ UNCHANGED <<now, seconds, alive, cache, heap, file, wtime, synced, mtvars>>

ExpNext == IsExpired \/ Return \/ Tick

SpecExpiry == ExpInit /\ [][ExpNext]_vars

(* ------------------ threads sharing one MemoryCache ------------------- *)
Threads == {"t1", "t2"}

NoJob == [op |-> "none", todo |-> << >>, n |-> 0, force |-> FALSE, keys |-> {}]

\* variant: the lock keeps no one out
CanAcquire_nolock(t) == TRUE

\* RLock.acquire: free, or already held by the same thread
CanAcquire(t) == lock.owner \in {"none", t}

Acquired(t) == [owner |-> t, depth |-> lock.depth + 1]

\* variant: leaving the with block does not release the lock
Released_held == lock

Released == IF lock.depth > 1 THEN [lock EXCEPT !.depth = @ - 1]
            ELSE [owner |-> "none", depth |-> 0]

\* another thread is inside set_many/add_many with some but not all entries applied
Partial(t) ==
    \E u \in DOMAIN pc \ {t} : pc[u] = "loop" /\ job[u].n > 0 /\ job[u].todo # << >>

\* in these runs every value passed is a new dict {"v": "x"}
MTBatches ==
    {<<<<k, OwnCell(Rec("x"))>>>> : k \in Keys} \cup
    {b \in {<<<<k1, OwnCell(Rec("x"))>>, <<k2, OwnCell(Rec("x"))>>>> :
                k1 \in Keys, k2 \in Keys} : b[1][1] # b[2][1]}

\* obs: the operations that have run while a batch was half applied
MTInit ==
    /\ now = 0
    /\ seconds \in 0..MaxTTL
    /\ alive = TRUE
    /\ cache = << >>
    /\ heap = [o \in Objs |-> RecT("z", 0)]
    /\ file = NoFile
    /\ wtime = NoWrite
    /\ synced = FALSE
    /\ last = Idle
    /\ lock = [owner |-> "none", depth |-> 0]
    /\ pc = [t \in Threads |-> "idle"]
    /\ job = [t \in Threads |-> NoJob]
    /\ obs = {}
    /\ hist = 0

MTStore(r) ==
    /\ cache' = r.st.c
    /\ heap' = r.st.h
    /\ wtime' = r.st.w

Observe(t, op) == obs' = IF Partial(t) THEN obs \cup {op} ELSE obs

MTTick ==
    /\ now < MaxClock
    /\ now' = now + 1
    /\ UNCHANGED <<seconds, alive, cache, heap, file, wtime, synced, last, mtvars>>

\* set_many / add_many: with self._lock: ... the loop is entered holding the lock
MTBegin(t) ==
    \E op \in {"set_many", "add_many"}, items \in MTBatches, force \in BOOLEAN :
        /\ pc[t] = "idle"
        /\ CanAcquire(t)
        /\ op = "set_many" => ~force
        /\ lock' = Acquired(t)
        /\ pc' = [pc EXCEPT ![t] = "loop"]
        /\ job' = [job EXCEPT ![t] = [op |-> op, todo |-> items, n |-> 0, force |-> force,
                                      keys |-> {items[i][1] : i \in 1..Len(items)}]]
        /\ UNCHANGED <<now, seconds, alive, cache, heap, file, wtime, synced, last, obs, hist>>

\* variant: the private _set / _add takes the store lock itself
MTStep_relock(t) ==
    /\ pc[t] = "loop"
    /\ job[t].todo # << >>
    /\ CanAcquire(t)
    /\ LET e == Head(job[t].todo) IN
       MTStore(IF job[t].op = "set_many" THEN _set(St, e[1], e[2], now)
               ELSE _add(St, e[1], e[2], job[t].force, seconds, now))
    /\ job' = [job EXCEPT ![t].todo = Tail(@), ![t].n = @ + 1]
    /\ lock' = Acquired(t)
    /\ UNCHANGED <<now, seconds, alive, file, synced, last, pc, obs, hist>>

\* one turn of the loop of _set_many / _add_many
MTStep(t) ==
    /\ pc[t] = "loop"
    /\ job[t].todo # << >>
    /\ LET e == Head(job[t].todo) IN
       MTStore(IF job[t].op = "set_many" THEN _set(St, e[1], e[2], now)
               ELSE _add(St, e[1], e[2], job[t].force, seconds, now))
    /\ job' = [job EXCEPT ![t].todo = Tail(@), ![t].n = @ + 1]
    /\ UNCHANGED <<now, seconds, alive, file, synced, last, lock, pc, obs, hist>>

\* the loop is over: the with block releases the lock
MTEnd(t) ==
    /\ pc[t] = "loop"
    /\ job[t].todo = << >>
    /\ lock' = Released
    /\ pc' = [pc EXCEPT ![t] = "idle"]
    /\ job' = [job EXCEPT ![t] = NoJob]
    /\ UNCHANGED <<now, seconds, alive, cache, heap, file, wtime, synced, last, obs, hist>>

\* get, has, size, copy, __len__: the whole body runs holding the lock
MTRead(t) ==
    \E op \in {"get", "has", "size", "copy", "len"}, k \in Keys, prune \in BOOLEAN :
        LET r == CASE op = "get" -> _get(St, k, seconds, now)
                   [] op = "has" -> _has(St, k, seconds, now)
                   [] op = "size" -> _size(St, prune, seconds, now)
                   [] op = "copy" -> Res(St, 0, "none")
                   [] op = "len" -> Res(St, Len(cache), "none")
        IN  /\ pc[t] = "idle"
            /\ CanAcquire(t)
            /\ MTStore(r)
            /\ Observe(t, op)
            /\ UNCHANGED <<now, seconds, alive, file, synced, last, lock, pc, job, hist>>

\* keys(), values(), items(): self._cache.copy().keys() ..., no lock taken
MTKeys(t) ==
    \E op \in {"keys", "values", "items"} :
        /\ pc[t] = "idle"
        /\ Observe(t, op)
        /\ UNCHANGED <<now, seconds, alive, cache, heap, file, wtime, synced, last,
                       lock, pc, job, hist>>

\* delete, clear: the whole body runs holding the lock
MTWrite(t) ==
    \E op \in {"delete", "clear"}, k \in Keys :
        /\ pc[t] = "idle"
        /\ CanAcquire(t)
        /\ MTStore(IF op = "delete" THEN _delete(St, k) ELSE _clear(St))
        /\ UNCHANGED <<now, seconds, alive, file, synced, last, lock, pc, job, obs, hist>>

MTNext ==
    \/ MTTick
    \/ \E t \in Threads : MTBegin(t) \/ MTStep(t) \/ MTEnd(t)
    \/ \E t \in Threads : MTRead(t) \/ MTKeys(t) \/ MTWrite(t)

SpecMT == MTInit /\ [][MTNext]_vars

(* ------- threads that each call add_many on one shared MemoryCache ----- *)
AddThreads == {"t1", "t2", "t3"}

AddKeys == {"a", "b", "c"}

AddBatches ==
    {<<<<k, OwnCell(Rec("x"))>>>> : k \in AddKeys} \cup
    {b \in {<<<<k1, OwnCell(Rec("x"))>>, <<k2, OwnCell(Rec("x"))>>>> :
                k1 \in AddKeys, k2 \in AddKeys} : b[1][1] # b[2][1]}

\* each thread calls add_many once and is then done;
\* hist: per thread the keys it passed to add_many
AddInit ==
    /\ now = 0
    /\ seconds \in 0..MaxTTL
    /\ alive = TRUE
    /\ cache = << >>
    /\ heap = [o \in Objs |-> RecT("z", 0)]
    /\ file = NoFile
    /\ wtime = [k \in AddKeys |-> -1]
    /\ synced = FALSE
    /\ last = Idle
    /\ lock = [owner |-> "none", depth |-> 0]
    /\ pc = [t \in AddThreads |-> "idle"]
    /\ job = [t \in AddThreads |-> NoJob]
    /\ obs = {}
    /\ hist = [added |-> [t \in AddThreads |-> {}]]

AddBegin(t) ==
    \E items \in AddBatches, force \in BOOLEAN :
        /\ pc[t] = "idle"
        /\ CanAcquire(t)
        /\ lock' = Acquired(t)
        /\ pc' = [pc EXCEPT ![t] = "loop"]
        /\ job' = [job EXCEPT ![t] = [op |-> "add_many", todo |-> items, n |-> 0,
                                      force |-> force,
                                      keys |-> {items[i][1] : i \in 1..Len(items)}]]
        /\ UNCHANGED <<now, seconds, alive, cache, heap, file, wtime, synced, last, obs, hist>>

AddEnd(t) ==
    /\ pc[t] = "loop"
    /\ job[t].todo = << >>
    /\ lock' = Released
    /\ pc' = [pc EXCEPT ![t] = "done"]
    /\ job' = [job EXCEPT ![t] = NoJob]
    /\ hist' = [added |-> [hist.added EXCEPT ![t] = job[t].keys]]
    /\ UNCHANGED <<now, seconds, alive, cache, heap, file, wtime, synced, last, obs>>

\* size(prune) by any thread that is not inside a call
AddSize(t) ==
    \E prune \in BOOLEAN :
        /\ pc[t] # "loop"
        /\ CanAcquire(t)
        /\ MTStore(_size(St, prune, seconds, now))
        /\ UNCHANGED <<now, seconds, alive, file, synced, last, lock, pc, job, obs, hist>>

AddNext ==
    \/ MTTick
    \/ \E t \in AddThreads : AddBegin(t) \/ MTStep(t) \/ AddEnd(t) \/ AddSize(t)

SpecAdd == AddInit /\ [][AddNext]_vars

(* ============================ properties ============================== *)
HasTime(r) == key_cache \in DOMAIN r

\* the record is expired under the store's TTL at the current clock
Expired(r) == HasTime(r) /\ r[key_cache] <= now - seconds

\* the record is valid: it carries a cache_time newer than now - seconds
Fresh(r) == HasTime(r) /\ r[key_cache] > now - seconds

StNext == [c |-> cache', h |-> heap', w |-> wtime']

(* C1: with a TTL s >= 0, get(key) never returns a record whose cache_time is
   <= now - s; when the key was physically present but expired, get has removed
   it from the mapping (the physical count dropped by one) and returned the
   empty record. *)
C1_GetNeverStale ==
    (last.op = "get" /\ seconds >= 0) =>
        /\ last.exc = "none"
        /\ HasTime(last.ret) => last.ret[key_cache] > now - seconds
        /\ (last.args.key \in DOMAIN last.was /\ Expired(last.was[last.args.key])) =>
              /\ last.ret = EmptyRec
              /\ ~DHas(cache, last.args.key)
              /\ Len(cache) = Cardinality(DOMAIN last.was) - 1

C1_Witness ==
    /\ last.op = "get" /\ seconds >= 0
    /\ last.args.key \in DOMAIN last.was
    /\ Expired(last.was[last.args.key])
    /\ last.ret = EmptyRec
    /\ ~DHas(cache, last.args.key)
    /\ Len(cache) = 1

(* C2: with a TTL s >= 0, add(key, value, force) leaves the store as it was
   exactly when key is present with a cache_time newer than now - s and force
   is false; in every other case the mapping and the caller's objects end as
   set(key, value) would leave them (compared as mappings, as dict equality
   does). *)
C2_AddIsNoopOrSet ==
    [][(last.op = "idle" /\ last'.op = "add" /\ seconds >= 0) =>
          LET a == last'.args
              kept == /\ DHas(cache, a.key)
                      /\ Fresh(Deref(St, DGet(cache, a.key)))
                      /\ ~a.force
              asSet == _set(St, a.key, a.value, now).st
          IN  /\ last'.exc = "none"
              /\ kept => StNext = St
              /\ ~kept => /\ ViewMap(StNext) = ViewMap(asSet)
                          /\ heap' = asSet.h
                          /\ wtime' = asSet.w
                          /\ ViewMap(StNext)[a.key] = Stamp(Deref(St, a.value), now)]_vars

\* add without force of another value on a valid key: the stored record stayed
C2_Witness ==
    /\ last.op = "add" /\ seconds >= 0 /\ ~last.args.force
    /\ last.args.key \in DOMAIN last.was
    /\ Fresh(last.was[last.args.key])
    /\ last.was[last.args.key]["v"] # Deref(St, last.args.value)["v"]
    /\ ViewMap(St)[last.args.key] = last.was[last.args.key]

(* C5: save(prune) always returns true, leaving the file holding exactly the
   in-memory mapping when the store is non-empty and absent when it is empty
   (stated here for TTL >= 0 and records that all carry cache_time). *)
C5_SaveReturnsTrue ==
    (/\ last.op = "save" /\ seconds >= 0
     /\ \A k \in DOMAIN last.was : HasTime(last.was[k])) =>
        /\ last.exc = "none"
        /\ last.ret = TRUE
        /\ IF Len(cache) > 0 THEN file = DictFile(View(St)) ELSE file = NoFile

(* C6: after save(), a fresh HybridCache constructed on the same path while no
   saved record is expired holds the same keys with the same fields and the
   same cache_time as the store that was saved. *)
C6_RoundTrip ==
    (/\ last.op = "init" /\ last.synced /\ seconds >= 0
     /\ \A k \in DOMAIN last.was : Fresh(last.was[k])) =>
        /\ last.exc = "none"
        /\ Len(cache) = Cardinality(DOMAIN last.was)
        /\ ViewMap(St) = last.was

AllTimed(d) == \A i \in 1..Len(d) : HasTime(d[i][2])

(* C7 as claimed: construction on an existing file loads every record of the
   file without pruning, so size(prune=false) equals the number of records in
   the file. *)
C7_ConstructKeepsExpired ==
    (last.op = "init" /\ last.exc = "none" /\ file.kind = "dict") =>
        Len(cache) = Len(file.data)

(* C7 amended: construction on an existing file that is a JSON object whose
   records all carry cache_time, with TTL >= 0, loads the file and then prunes:
   the store holds, in file order, exactly the file's records with
   cache_time > now - TTL; expired records are not physically present. *)
C7_ConstructLoadsAndPrunes ==
    (/\ last.op = "init" /\ seconds >= 0
     /\ file.kind = "dict" /\ AllTimed(file.data)) =>
        /\ last.exc = "none"
        /\ alive
        /\ View(St) = SelectSeq(file.data, LAMBDA e : e[2][key_cache] > now - seconds)

C7_Witness ==
    /\ last.op = "init" /\ seconds >= 0
    /\ file.kind = "dict" /\ AllTimed(file.data)
    /\ Len(file.data) = 2
    /\ Len(cache) = 1

(* C8: load(prune=false) replaces the in-memory state with the file's mapping;
   when the file is absent the store is empty afterwards and load reports
   false. *)
C8_LoadReplaces ==
    (last.op = "load" /\ ~last.args.prune /\ last.exc = "none" /\ seconds >= 0) =>
        /\ file.kind = "dict" => (View(St) = file.data /\ last.ret = (Len(file.data) > 0))
        /\ file.kind = "none" => (Len(cache) = 0 /\ last.ret = FALSE)

(* C10: every record physically present that was stored by set or by an add
   that was not a no-op carries as cache_time the clock value of that write. *)
C10_StampIsLastWrite ==
    \A k \in DKeySet(cache) :
        (seconds >= 0 /\ wtime[k] # -1) =>
            LET r == Deref(St, DGet(cache, k)) IN HasTime(r) /\ r[key_cache] = wtime[k]

(* C3: no get, has, size, copy or len run by one thread runs while another
   thread is inside set_many/add_many with some but not all entries of its
   batch applied: none of them ever sees a partial batch. *)
LockedReads == {"get", "has", "size", "copy", "len"}

C3_BatchAllOrNothing == obs \cap LockedReads = {}

\* a batch is half applied, the other thread is kept out by the lock, and a
\* partial batch has been seen only by the lock-free keys()
C3_Witness ==
    \E u \in Threads :
        /\ pc[u] = "loop" /\ job[u].n = 1 /\ Len(job[u].todo) = 1
        /\ \A t \in Threads \ {u} : pc[t] = "idle" /\ ~CanAcquire(t)
        /\ obs = {"keys"}

Disjoint == \A t, u \in AddThreads : t # u => hist.added[t] \cap hist.added[u] = {}

AddedKeys == UNION {hist.added[t] : t \in AddThreads}

(* C4: the threads have only called add_many, with pairwise disjoint key sets,
   all calls are over and no TTL has elapsed: the store holds exactly the union
   of their keys and size() is the number of distinct keys, none lost. *)
C4_AddManyUnion ==
    (/\ \A t \in AddThreads : pc[t] = "done"
     /\ Disjoint /\ now < seconds) =>
        /\ DKeySet(cache) = AddedKeys
        /\ _size(St, TRUE, seconds, now).ret = Cardinality(AddedKeys)

C4_Witness ==
    /\ \A t \in AddThreads : pc[t] = "done"
    /\ Disjoint /\ now < seconds
    /\ Len(cache) = 3

(* C9: for TTL s >= 0 and a record carrying cache_time, is_expired is true
   exactly when cache_time <= now - s: true at cache_time = now - s, false at
   now - s + 1, false for a record stamped now when s > 0. *)
C9_ExpiryBoundary ==
    (/\ last.op = "is_expired" /\ last.args.seconds >= 0
     /\ HasTime(last.args.item)) =>
        LET ct == last.args.item[key_cache]
            s == last.args.seconds
        IN  /\ last.exc = "none"
            /\ last.ret = (ct <= now - s)
            /\ ct = now - s => last.ret
            /\ ct = now - s + 1 => ~last.ret
            /\ (ct = now /\ s > 0) => ~last.ret
            /\ ct + s <= now => last.ret

C9_Witness ==
    /\ last.op = "is_expired" /\ last.args.seconds > 0
    /\ HasTime(last.args.item)
    /\ last.args.item[key_cache] = now - last.args.seconds
    /\ last.ret = TRUE

\* the keys of a mapping whose records are valid at the current clock
FreshKeys(m) == {k \in DOMAIN m : Fresh(m[k])}

(* C11: size(prune=false) returns the physical number of records, expired ones
   included, and leaves the mapping as it was; size(prune=true), with TTL >= 0
   and records that all carry cache_time, leaves exactly the records that are
   not expired and returns their number. *)
C11_SizeCounts ==
    (last.op = "size" /\ alive) =>
        /\ ~last.args.prune =>
              /\ last.exc = "none"
              /\ ViewMap(St) = last.was
              /\ last.ret = Cardinality(DOMAIN last.was)
        /\ (last.args.prune /\ seconds >= 0 /\ \A k \in DOMAIN last.was : HasTime(last.was[k])) =>
              /\ last.exc = "none"
              /\ ViewMap(St) = [k \in FreshKeys(last.was) |-> last.was[k]]
              /\ last.ret = Cardinality(FreshKeys(last.was))
              /\ last.ret = Len(cache)

\* size(prune=false) counted a record that is expired and still in the mapping
C11_Witness ==
    /\ last.op = "size" /\ ~last.args.prune /\ seconds >= 0
    /\ last.ret = 2
    /\ \E k \in DOMAIN last.was : Expired(last.was[k]) /\ DHas(cache, k)

(* C12: keys(), values() and items() are taken while holding the store lock,
   so none of them, called by one thread, ever runs while another thread is
   inside set_many/add_many with some but not all entries applied. *)
LockFreeViews == {"keys", "values", "items"}

C12_ViewsUnderLock == obs \cap LockFreeViews = {}

(* ============================== FileCache ============================== *)
\* In these runs a file is [kind, data, mtime]: the document and the second of
\* its last modification (st_mtime); an absent path has kind "none".
Absent == [kind |-> "none", data |-> << >>, mtime |-> -1]

\* what open(file, "w") and write leave at the path at clock t
Written(doc, t) == [kind |-> doc.kind, data |-> doc.data, mtime |-> t]

\* the result of a FileCache call: the value returned, the exception raised, the file after it
FRes(ret, exc, f) == [ret |-> ret, exc |-> exc, file |-> f]

\* IO.load_list_dict: the parsed document if it is a non-empty list of dicts, else ValueError
IO_load_list_dict(f) ==
    IF f.kind = "list" /\ Len(f.data) > 0 THEN [exc |-> "none", val |-> f.data]
    ELSE [exc |-> "ValueError", val |-> << >>]

\* IO.save_list_dict(file, items, encoding): the parameter names of the def
save_list_dict_params == {"file", "items", "encoding"}

\* IO.save_list_dict's body: the document written over the file
save_list_dict(items) == ListFile(items)

\* has_file: file.is_file() and file.stat().st_mtime > expired
has_file(f, s, t) ==
    LET e == ts_expire(s, t) IN
    IF e.exc # "none" THEN FRes(FALSE, e.exc, f)
    ELSE FRes(f.kind # "none" /\ f.mtime > e.val, "none", f)

\* variant: the file is deleted only when strictly older than the cutoff
prune_file_strict(f, s, t) ==
    LET e == ts_expire(s, t) IN
    IF e.exc # "none" THEN FRes(0, e.exc, f)
    ELSE IF f.kind # "none" /\ f.mtime < e.val THEN FRes(0, "none", Absent)
    ELSE FRes(0, "none", f)

\* prune_file: if file.is_file() and file.stat().st_mtime <= expired: file.unlink()
prune_file(f, s, t) ==
    LET e == ts_expire(s, t) IN
    IF e.exc # "none" THEN FRes(0, e.exc, f)
    ELSE IF f.kind # "none" /\ f.mtime <= e.val THEN FRes(0, "none", Absent)
    ELSE FRes(0, "none", f)

\* variant: a record stamped exactly at the cutoff is kept
prune_list_dict_keepcutoff(data, s, t) ==
    LET e == ts_expire(s, t) IN
    IF e.exc # "none" THEN [exc |-> e.exc, val |-> << >>]
    ELSE IF \E i \in 1..Len(data) : key_cache \notin DOMAIN data[i]
         THEN [exc |-> "KeyError", val |-> << >>]
    ELSE [exc |-> "none", val |-> SelectSeq(data, LAMBDA r : r[key_cache] >= e.val)]

\* prune_list_dict: [item for item in data if item[key_cache] > expired]
prune_list_dict(data, s, t) ==
    LET e == ts_expire(s, t) IN
    IF e.exc # "none" THEN [exc |-> e.exc, val |-> << >>]
    ELSE IF \E i \in 1..Len(data) : key_cache \notin DOMAIN data[i]
         THEN [exc |-> "KeyError", val |-> << >>]
    ELSE [exc |-> "none", val |-> SelectSeq(data, LAMBDA r : r[key_cache] > e.val)]

\* prune_dict_dict: {k: v for k, v in data.items() if v[key_cache] > expired}
prune_dict_dict(data, s, t) ==
    LET e == ts_expire(s, t) IN
    IF e.exc # "none" THEN [exc |-> e.exc, val |-> << >>]
    ELSE IF \E i \in 1..Len(data) : key_cache \notin DOMAIN data[i][2]
         THEN [exc |-> "KeyError", val |-> << >>]
    ELSE [exc |-> "none", val |-> SelectSeq(data, LAMBDA e2 : e2[2][key_cache] > e.val)]

\* variant: the path is read without the is_file() test
load_list_dict_nocheck(f, s, t) ==
    LET l == IO_load_list_dict(f) IN
    IF l.exc # "none" THEN l ELSE prune_list_dict(l.val, s, t)

\* FileCache.load_list_dict: [] if the file is absent, else the pruned document
load_list_dict(f, s, t) ==
    IF f.kind = "none" THEN [exc |-> "none", val |-> << >>]
    ELSE LET l == IO_load_list_dict(f) IN
         IF l.exc # "none" THEN l ELSE prune_list_dict(l.val, s, t)

\* FileCache.load_dict_dict: {} if the file is absent, else the pruned document
load_dict_dict(f, s, t) ==
    IF f.kind = "none" THEN [exc |-> "none", val |-> << >>]
    ELSE LET l == load_dict(f) IN
         IF l.exc # "none" THEN l ELSE prune_dict_dict(l.val, s, t)

\* the keyword names the add operations pass to IO.save_list_dict / IO.save_dict
add_kwargs == {"file_name", "file_data"}

\* for item in data: item[key_cache] = now(); cached.append(item)
AppendStamped(cached, data, t) ==
    cached \o [i \in 1..Len(data) |-> Stamp(data[i], t)]

\* for key, value in data.items(): value[key_cache] = now(); cached[key] = value
RECURSIVE PutStamped(_, _, _)
PutStamped(cached, data, t) ==
    IF data = << >> THEN cached
    ELSE PutStamped(DPut(cached, Head(data)[1], Stamp(Head(data)[2], t)), Tail(data), t)

\* add_list_dict (data of one item) and add_list_dict_many: load, stamp, append, save
add_list_dict_many(f, data, s, t) ==
    LET c == load_list_dict(f, s, t) IN
    IF c.exc # "none" THEN FRes(FALSE, c.exc, f)
    ELSE IF ~Binds(save_list_dict_params, add_kwargs) THEN FRes(FALSE, "TypeError", f)
    ELSE FRes(TRUE, "none", Written(save_list_dict(AppendStamped(c.val, data, t)), t))

\* add_dict_dict (data of one key) and add_dict_dict_many: load, stamp, put, save
add_dict_dict_many(f, data, s, t) ==
    LET c == load_dict_dict(f, s, t) IN
    IF c.exc # "none" THEN FRes(FALSE, c.exc, f)
    ELSE IF ~Binds(save_dict_params, add_kwargs) THEN FRes(FALSE, "TypeError", f)
    ELSE FRes(TRUE, "none", Written(save_dict(PutStamped(c.val, data, t)), t))

add_list_dict(f, item, s, t) == add_list_dict_many(f, <<item>>, s, t)

add_dict_dict(f, key, value, s, t) == add_dict_dict_many(f, <<<<key, value>>>>, s, t)

(* ---- one path on disk: FileCache calls, a HybridCache, other writers --- *)
\* the documents the application writes to the path with IO.save_list_dict / IO.save_dict
FileDocs ==
    { ListFile(<< >>),
      ListFile(<<RecT("f", 0), RecT("g", 1)>>),
      ListFile(<<Rec("f")>>),
      DictFile(<< >>),
      DictFile(<<<<"a", RecT("f", 0)>>, <<"b", RecT("g", 1)>>>>),
      DictFile(<<<<"a", Rec("f")>>>>) }

\* the items and batches passed to the add operations: new dicts
FileItems == {Rec("x"), RecT("y", 0)}

FileLists == {<< >>} \cup {<<i>> : i \in FileItems} \cup
             {l \in FileItems \X FileItems : MaxBatch >= 2}

FileMaps == {<< >>, <<<<"a", Rec("x")>>>>, <<<<"b", Rec("x")>>>>} \cup
            {<<<<"a", Rec("x")>>, <<"c", RecT("y", 0)>>>> : n \in {m \in {2} : MaxBatch >= m}}

FileInit ==
    /\ now = 0
    /\ seconds \in 0..MaxTTL
    /\ alive = FALSE
    /\ cache = << >>
    /\ heap = [o \in Objs |-> RecT("z", 0)]
    /\ file = Absent
    /\ wtime = NoWrite
    /\ synced = FALSE
    /\ last = Idle
    /\ lock = 0 /\ pc = 0 /\ job = 0 /\ obs = 0 /\ hist = 0

\* a FileCache call returns or raises; "was" is the file before the call
FDone(r, op, args) ==
    /\ last.op = "idle"
    /\ file' = r.file
    /\ last' = [op |-> op, args |-> args, ret |-> r.ret, exc |-> r.exc,
                was |-> file, synced |-> FALSE]

\* the application writes a document to the path
FileWrite ==
    \E doc \in FileDocs :
        /\ last.op = "idle"
        /\ file' = Written(doc, now)
        /\ UNCHANGED <<now, seconds, alive, cache, heap, wtime, synced, last, mtvars>>

HasFile ==
    \E s \in -1..MaxTTL :
        /\ FDone(has_file(file, s, now), "has_file", [seconds |-> s])
        /\ UNCHANGED <<now, seconds, alive, cache, heap, wtime, synced, mtvars>>

PruneFile ==
    \E s \in -1..MaxTTL :
        /\ FDone(prune_file(file, s, now), "prune_file", [seconds |-> s])
        /\ UNCHANGED <<now, seconds, alive, cache, heap, wtime, synced, mtvars>>

LoadListDict ==
    \E s \in -1..MaxTTL :
        LET l == load_list_dict(file, s, now) IN
        /\ FDone(FRes(l.val, l.exc, file), "load_list_dict", [seconds |-> s])
        /\ UNCHANGED <<now, seconds, alive, cache, heap, wtime, synced, mtvars>>

LoadDictDict ==
    \E s \in -1..MaxTTL :
        LET l == load_dict_dict(file, s, now) IN
        /\ FDone(FRes(l.val, l.exc, file), "load_dict_dict", [seconds |-> s])
        /\ UNCHANGED <<now, seconds, alive, cache, heap, wtime, synced, mtvars>>

AddListDict ==
    \E s \in -1..MaxTTL, item \in FileItems :
        /\ FDone(add_list_dict(file, item, s, now), "add_list_dict",
                 [seconds |-> s, data |-> <<item>>])
        /\ UNCHANGED <<now, seconds, alive, cache, heap, wtime, synced, mtvars>>

AddListDictMany ==
    \E s \in -1..MaxTTL, data \in FileLists :
        /\ FDone(add_list_dict_many(file, data, s, now), "add_list_dict_many",
                 [seconds |-> s, data |-> data])
        /\ UNCHANGED <<now, seconds, alive, cache, heap, wtime, synced, mtvars>>

AddDictDict ==
    \E s \in -1..MaxTTL, k \in Keys, v \in FileItems :
        /\ FDone(add_dict_dict(file, k, v, s, now), "add_dict_dict",
                 [seconds |-> s, data |-> <<<<k, v>>>>])
        /\ UNCHANGED <<now, seconds, alive, cache, heap, wtime, synced, mtvars>>

AddDictDictMany ==
    \E s \in -1..MaxTTL, data \in FileMaps :
        /\ FDone(add_dict_dict_many(file, data, s, now), "add_dict_dict_many",
                 [seconds |-> s, data |-> data])
        /\ UNCHANGED <<now, seconds, alive, cache, heap, wtime, synced, mtvars>>

FileNext ==
    \/ Tick \/ Return \/ FileWrite
    \/ HasFile \/ PruneFile
    \/ LoadListDict \/ LoadDictDict
    \/ AddListDict \/ AddListDictMany \/ AddDictDict \/ AddDictDictMany

SpecFile == FileInit /\ [][FileNext]_vars

\* a HybridCache and FileCache calls on a path that the application also writes to,
\* at one clock instant
ShapeNext ==
    \/ Return \/ FileWrite
    \/ Construct \/ Set \/ Load
    \/ LoadListDict \/ LoadDictDict
    \/ AddListDict \/ AddListDictMany \/ AddDictDict \/ AddDictDictMany

SpecShape == FileInit /\ [][ShapeNext]_vars

\* the document is one the loader of that container accepts and every record carries cache_time
GoodList(f) == f.kind = "list" /\ Len(f.data) > 0 /\ \A i \in 1..Len(f.data) : HasTime(f.data[i])

GoodDict(f) == f.kind = "dict" /\ AllTimed(f.data)

(* C13: with TTL s >= 0, load_list_dict and load_dict_dict return the empty
   collection when the file is absent; on a file their loader accepts (a
   non-empty array of objects, an object of objects) whose records carry
   cache_time they return, in file order, exactly the records with
   cache_time > now - s; the file is left as it was. *)
C13_LoadReturnsValid ==
    (last.op \in {"load_list_dict", "load_dict_dict"} /\ last.args.seconds >= 0) =>
        LET s == last.args.seconds
            f == last.was
        IN  /\ file = f
            /\ f.kind = "none" => (last.exc = "none" /\ last.ret = << >>)
            /\ (last.op = "load_list_dict" /\ GoodList(f)) =>
                  /\ last.exc = "none"
                  /\ last.ret = SelectSeq(f.data, LAMBDA r : r[key_cache] > now - s)
            /\ (last.op = "load_dict_dict" /\ GoodDict(f)) =>
                  /\ last.exc = "none"
                  /\ last.ret = SelectSeq(f.data, LAMBDA e : e[2][key_cache] > now - s)

\* a load dropped the record stamped at the cutoff and kept the newer one
C13_Witness ==
    /\ last.op = "load_list_dict" /\ last.args.seconds >= 0
    /\ GoodList(last.was) /\ Len(last.was.data) = 2
    /\ last.was.data[1][key_cache] = now - last.args.seconds
    /\ last.ret = <<last.was.data[2]>>

AddOps == {"add_list_dict", "add_list_dict_many", "add_dict_dict", "add_dict_dict_many"}

ListAddOps == {"add_list_dict", "add_list_dict_many"}

(* C14: with TTL s >= 0, on an absent path or a file the loader accepts whose
   records carry cache_time, each add operation returns true and leaves the
   file holding the records of the old file with cache_time > now - s,
   followed by (list) or overlaid with (mapping) the new records stamped now. *)
C14_AddRewritesFile ==
    (/\ last.op \in AddOps /\ last.args.seconds >= 0
     /\ IF last.op \in ListAddOps THEN last.was.kind = "none" \/ GoodList(last.was)
        ELSE last.was.kind = "none" \/ GoodDict(last.was)) =>
        LET s == last.args.seconds
            f == last.was
        IN  /\ last.exc = "none"
            /\ last.ret = TRUE
            /\ last.op \in ListAddOps =>
                  /\ file.kind = "list"
                  /\ file.data = AppendStamped(SelectSeq(f.data, LAMBDA r : r[key_cache] > now - s),
                                               last.args.data, now)
            /\ last.op \notin ListAddOps =>
                  /\ file.kind = "dict"
                  /\ file.data = PutStamped(SelectSeq(f.data, LAMBDA e : e[2][key_cache] > now - s),
                                            last.args.data, now)

(* ------- threads that each call FileCache.add_list_dict on one path ----- *)
\* GLOBAL_LOCK is the lock; each thread adds one item {"v": <its name>} with TTL seconds;
\* job[t]: what the thread's call has loaded and raised so far (its cached list)
FileJob == [cached |-> << >>, exc |-> "none"]

FileMTInit ==
    /\ now = 0
    /\ seconds \in 0..MaxTTL
    /\ alive = FALSE
    /\ cache = << >>
    /\ heap = [o \in Objs |-> RecT("z", 0)]
    /\ file \in {Absent, Written(ListFile(<<RecT("f", 0), RecT("g", 1)>>), 0)}
    /\ wtime = NoWrite
    /\ synced = FALSE
    /\ last = Idle
    /\ lock = [owner |-> "none", depth |-> 0]
    /\ pc = [t \in AddThreads |-> "idle"]
    /\ job = [t \in AddThreads |-> FileJob]
    /\ obs = {}
    /\ hist = [t \in AddThreads |-> "none"]

\* add_list_dict: with GLOBAL_LOCK:
FileAddBegin(t) ==
    /\ pc[t] = "idle"
    /\ CanAcquire(t)
    /\ lock' = Acquired(t)
    /\ pc' = [pc EXCEPT ![t] = "locked"]
    /\ UNCHANGED <<now, seconds, alive, cache, heap, file, wtime, synced, last, job, obs, hist>>

\* cached = cls.load_list_dict(file=file, seconds=seconds), which takes the lock again
FileAddLoad(t) ==
    /\ pc[t] = "locked"
    /\ CanAcquire(t)
    /\ LET c == load_list_dict(file, seconds, now) IN
       job' = [job EXCEPT ![t] = [cached |-> c.val, exc |-> c.exc]]
    /\ pc' = [pc EXCEPT ![t] = "loaded"]
    /\ UNCHANGED <<now, seconds, alive, cache, heap, file, wtime, synced, last, lock, obs, hist>>

\* item[key_cache] = now(); cached.append(item); IO.save_list_dict(file_name=..., file_data=...)
FileAddSave(t) ==
    /\ pc[t] = "loaded"
    /\ LET r == IF job[t].exc # "none" THEN FRes(FALSE, job[t].exc, file)
                ELSE IF ~Binds(save_list_dict_params, add_kwargs)
                     THEN FRes(FALSE, "TypeError", file)
                ELSE FRes(TRUE, "none",
                          Written(save_list_dict(AppendStamped(job[t].cached, <<Rec(t)>>, now)), now))
       IN  /\ file' = r.file
           /\ job' = [job EXCEPT ![t].exc = r.exc]
    /\ pc' = [pc EXCEPT ![t] = "leaving"]
    /\ UNCHANGED <<now, seconds, alive, cache, heap, wtime, synced, last, lock, obs, hist>>

\* the with block is left, by return or by the exception: the lock is released;
\* hist[t]: how the thread's call ended
FileAddEnd(t) ==
    /\ pc[t] = "leaving"
    /\ lock' = Released
    /\ pc' = [pc EXCEPT ![t] = "done"]
    /\ hist' = [hist EXCEPT ![t] = job[t].exc]
    /\ UNCHANGED <<now, seconds, alive, cache, heap, file, wtime, synced, last, job, obs>>

FileMTNext ==
    \/ MTTick
    \/ \E t \in AddThreads : FileAddBegin(t) \/ FileAddLoad(t) \/ FileAddSave(t) \/ FileAddEnd(t)

SpecFileMT == FileMTInit /\ [][FileMTNext]_vars

(* C15: when all threads' add_list_dict calls on the path are over and no TTL
   has elapsed, the file holds the record added by every thread. *)
C15_NoAddLost ==
    (/\ \A t \in AddThreads : pc[t] = "done"
     /\ now < seconds) =>
        /\ file.kind = "list"
        /\ \A t \in AddThreads : \E i \in 1..Len(file.data) : file.data[i]["v"] = t

(* --- MemoryCache instances that share one lock, one thread per instance -- *)
\* each thread runs MaxOps operations on its own instance
MaxOps == 2

\* in these runs cache[t] and wtime[t] are the _cache of thread t's instance and its history
InstSt(t) == [c |-> cache[t], h |-> heap, w |-> wtime[t]]

SharedInit ==
    /\ now = 0
    /\ seconds \in 0..MaxTTL
    /\ alive = TRUE
    /\ cache = [t \in Threads |-> << >>]
    /\ heap = [o \in Objs |-> RecT("z", 0)]
    /\ file = NoFile
    /\ wtime = [t \in Threads |-> NoWrite]
    /\ synced = FALSE
    /\ last = Idle
    /\ lock = [owner |-> "none", depth |-> 0]
    /\ pc = [t \in Threads |-> "idle"]
    /\ job = [t \in Threads |-> 0]
    /\ obs = {}
    /\ hist = 0

\* self._cache of thread t's instance after a method body
InstStore(t, r) ==
    /\ cache' = [cache EXCEPT ![t] = r.st.c]
    /\ wtime' = [wtime EXCEPT ![t] = r.st.w]

\* with self._lock: the thread enters a public method of its instance
SharedBegin(t) ==
    /\ pc[t] = "idle"
    /\ CanAcquire(t)
    /\ lock' = Acquired(t)
    /\ pc' = [pc EXCEPT ![t] = "in"]
    /\ UNCHANGED <<now, seconds, alive, cache, heap, file, wtime, synced, last, job, obs, hist>>

\* the body of clear, delete, delete_many, size, add or add_many runs on the
\* thread's own instance and the lock is released
SharedEnd(t) ==
    /\ pc[t] = "in"
    /\ lock' = Released
    /\ job' = [job EXCEPT ![t] = @ + 1]
    /\ pc' = [pc EXCEPT ![t] = IF job[t] + 1 >= MaxOps THEN "done" ELSE "idle"]
    /\ \/ InstStore(t, _clear(InstSt(t)))
       \/ \E k \in Keys : InstStore(t, _delete(InstSt(t), k))
       \/ \E keys \in KeyLists : InstStore(t, _delete_many(InstSt(t), keys, 0))
       \/ \E prune \in BOOLEAN : InstStore(t, _size(InstSt(t), prune, seconds, now))
       \/ \E k \in Keys, force \in BOOLEAN :
              InstStore(t, _add(InstSt(t), k, OwnCell(Rec("x")), force, seconds, now))
       \/ \E items \in MTBatches, force \in BOOLEAN :
              InstStore(t, _add_many(InstSt(t), items, force, seconds, now))
    /\ UNCHANGED <<now, seconds, alive, heap, file, synced, last, obs, hist>>

SharedNext == \E t \in Threads : SharedBegin(t) \/ SharedEnd(t)

\* a thread that can run is eventually scheduled
SpecShared ==
    /\ SharedInit /\ [][SharedNext]_vars
    /\ \A t \in Threads : WF_vars(SharedBegin(t) \/ SharedEnd(t))

(* C16: with one lock shared by the instances, every thread runs its sequence
   of operations to the end, and an instance's mapping changes only in a step
   of the thread that drives it. *)
C16_SharedLockCompletes ==
    /\ \A t \in Threads : <>(pc[t] = "done")
    /\ [][\A t \in Threads : pc'[t] = pc[t] => cache'[t] = cache[t]]_vars

\* both threads are done and the two instances hold different numbers of records
C16_Witness ==
    /\ \A t \in Threads : pc[t] = "done"
    /\ Len(cache["t1"]) = 2
    /\ Len(cache["t2"]) = 0

\* the operations of a HybridCache other than load and save
MemoryOps == {"set", "set_many", "add", "add_many", "get", "has", "delete", "delete_many",
              "prune", "size", "clear", "keys", "values", "items", "copy"}

(* C17: after construction, a call of set, set_many, add, add_many, get, has,
   delete, delete_many, prune, size, clear, keys, values, items or copy leaves
   the backing file as it was, absent or with the same content; a step that
   changes the file is a call of save. *)
C17_OnlySaveTouchesFile ==
    [][/\ last'.op \in MemoryOps => file' = file
       /\ file' # file => last'.op = "save"]_vars

\* clear emptied the store and the file still holds its two records
C17_Witness ==
    /\ last.op = "clear" /\ last.exc = "none"
    /\ Cardinality(DOMAIN last.was) >= 1 /\ Len(cache) = 0
    /\ file.kind = "dict" /\ Len(file.data) = 2

(* C18: with TTL >= 0, get and has raise nothing, whatever the key and the
   store, a store loaded from a file included; a key that is missing or whose
   record is expired yields the empty record from get and false from has. *)
C18_GetHasNeverRaise ==
    (last.op \in {"get", "has"} /\ seconds >= 0) =>
        LET k == last.args.key
            gone == k \notin DOMAIN last.was \/ Expired(last.was[k])
        IN  /\ last.exc = "none"
            /\ gone => last.ret = (IF last.op = "get" THEN EmptyRec ELSE FALSE)
            /\ (last.op = "has" /\ ~gone /\ HasTime(last.was[k])) => last.ret = TRUE

\* has on a key whose record, loaded from the file, was expired: false, nothing raised
C18_Witness ==
    /\ last.op = "has" /\ seconds >= 0
    /\ last.args.key \in DOMAIN last.was
    /\ wtime[last.args.key] = -1
    /\ Expired(last.was[last.args.key])
    /\ last.was[last.args.key]["v"] = "f"
    /\ last.ret = FALSE /\ last.exc = "none"

DictOps == {"load_dict_dict", "add_dict_dict", "add_dict_dict_many"}

ListOps == {"load_list_dict", "add_list_dict", "add_list_dict_many"}

(* C19: a call that finds at the path a JSON object where it expects an array
   (FileCache list operations) or an array where it expects an object
   (FileCache mapping operations, HybridCache.load and the load of
   construction) raises ValueError and leaves the file as it was;
   HybridCache.load also leaves the in-memory store as it was. *)
C19_ShapeErrorPropagates ==
    [][(last.op = "idle" /\ last'.op # "idle") =>
          /\ (last'.op \in ListOps /\ file.kind = "dict") =>
                (last'.exc = "ValueError" /\ file' = file)
          /\ (last'.op \in DictOps \cup {"load", "init"} /\ file.kind = "list") =>
                (last'.exc = "ValueError" /\ file' = file)
          /\ (last'.op = "load" /\ file.kind = "list") =>
                (cache' = cache /\ heap' = heap)]_vars

\* load raised on a file holding an array and the store still holds its record
C19_Witness ==
    /\ last.op = "load" /\ last.exc = "ValueError"
    /\ file.kind = "list"
    /\ Len(cache) = 1
    /\ ViewMap(St) = last.was

(* C20: for a TTL s >= 0, has_file answers TRUE exactly when the file exists
   and its modification time is greater than now - s; prune_file removes the
   file exactly when it exists and its modification time is <= now - s and
   otherwise leaves it as it was.  So prune_file never removes a file that
   has_file accepts at the same instant, and after prune_file the file
   exists exactly when has_file accepts it. *)
C20_HasFilePruneFileAgree ==
    /\ (last.op = "has_file" /\ last.args.seconds >= 0) =>
          /\ last.exc = "none"
          /\ file = last.was
          /\ last.ret = (last.was.kind # "none" /\ last.was.mtime > now - last.args.seconds)
    /\ (last.op = "prune_file" /\ last.args.seconds >= 0) =>
          /\ last.exc = "none"
          /\ (file = Absent /\ last.was # Absent)
                <=> (last.was.kind # "none" /\ last.was.mtime <= now - last.args.seconds)
          /\ file # Absent => file = last.was
          /\ has_file(last.was, last.args.seconds, now).ret => file = last.was
          /\ (file.kind # "none") <=> has_file(file, last.args.seconds, now).ret

\* prune_file removed a file whose modification time is exactly the cutoff
C20_Witness ==
    /\ last.op = "prune_file" /\ last.exc = "none"
    /\ last.args.seconds >= 0
    /\ last.was.kind # "none"
    /\ last.was.mtime = now - last.args.seconds
    /\ file = Absent

(* C21: with TTL >= 0 and records that all carry cache_time, prune() removes
   exactly the records with cache_time <= now - TTL and returns their number:
   afterwards no record physically present is expired, every record that was
   not expired is present as it was, and a prune() repeated at once would
   return 0 and change nothing. *)
C21_PruneExact ==
    (/\ last.op = "prune" /\ seconds >= 0
     /\ \A k \in DOMAIN last.was : HasTime(last.was[k])) =>
        /\ last.exc = "none"
        /\ ViewMap(St) = [k \in FreshKeys(last.was) |-> last.was[k]]
        /\ last.ret = Cardinality(DOMAIN last.was \ FreshKeys(last.was))
        /\ \A k \in DKeySet(cache) :
              LET e == is_expired(Deref(St, DGet(cache, k)), seconds, now) IN
              e.exc = "none" /\ ~e.val
        /\ _prune(St, seconds, now) = Res(St, 0, "none")

\* prune removed the second of two records and kept the first, which is valid
C21_Witness ==
    /\ last.op = "prune" /\ seconds >= 0
    /\ DOMAIN last.was = {"a", "b"}
    /\ \A k \in DOMAIN last.was : HasTime(last.was[k])
    /\ last.ret = 1
    /\ DKeys(cache) = <<"a">>
    /\ Fresh(ViewMap(St)["a"])

(* C22 as claimed: the set/get/delete logic that a public MemoryCache method
   calls while holding the store lock acquires that lock again: while a thread
   is inside set_many/add_many with an entry applied, the lock has been taken
   at least twice by it. *)
C22_ReacquiresLock ==
    \A t \in Threads :
        (pc[t] = "loop" /\ job[t].n >= 1) => (lock.owner = t /\ lock.depth >= 2)

(* C22 amended: a public MemoryCache method takes the store lock once and the
   private logic it calls takes none: the lock is never held more than once,
   a thread inside set_many/add_many holds it exactly once, every step that
   takes the lock finds it free (so a non-reentrant lock would admit the same
   steps), and the steps of the loop leave the lock alone. *)
C22_LockTakenOnce ==
    /\ [](/\ lock.depth <= 1
          /\ \A t \in Threads :
                /\ pc[t] = "loop" => lock = [owner |-> t, depth |-> 1]
                /\ pc[t] = "idle" => lock.owner # t)
    /\ [][/\ lock'.depth > lock.depth => lock.owner = "none"
          /\ \A t \in Threads : (pc[t] = "loop" /\ pc'[t] = "loop") => lock' = lock]_vars

\* a thread has applied its whole add_many batch of two and holds the lock once
C22_Witness ==
    \E u \in Threads :
        /\ pc[u] = "loop" /\ job[u].op = "add_many"
        /\ job[u].n = 2 /\ job[u].todo = << >>
        /\ lock = [owner |-> u, depth |-> 1]
        /\ Len(cache) = 2

FileOps == {"has_file", "prune_file"} \cup ListOps \cup DictOps

(* C23: a negative TTL fails fast.  is_expired and every FileCache operation
   called with seconds < 0 raise AssertionError and leave the file as it was;
   a store constructed with a negative TTL holds no record, and every operation
   called on it after construction raises AssertionError. *)
C23_NegativeTTLFailsFast ==
    /\ (last.op \in FileOps \cup {"is_expired"} /\ last.args.seconds < 0) =>
          (last.exc = "AssertionError" /\ file = last.was)
    /\ (seconds < 0 /\ alive) =>
          /\ Len(cache) = 0
          /\ last.op \notin {"idle", "init"} => last.exc = "AssertionError"

(* ------ FileCache list operations alone on a path that starts absent ---- *)
\* hist: the operations called so far
ListInit ==
    /\ now = 0
    /\ seconds \in 0..MaxTTL
    /\ alive = FALSE
    /\ cache = << >>
    /\ heap = [o \in Objs |-> RecT("z", 0)]
    /\ file = Absent
    /\ wtime = NoWrite
    /\ synced = FALSE
    /\ last = Idle
    /\ lock = 0 /\ pc = 0 /\ job = 0 /\ obs = 0
    /\ hist = {}

ListLoad ==
    \E s \in -1..MaxTTL :
        LET l == load_list_dict(file, s, now) IN
        /\ FDone(FRes(l.val, l.exc, file), "load_list_dict", [seconds |-> s])
        /\ hist' = hist \cup {"load_list_dict"}
        /\ UNCHANGED <<now, seconds, alive, cache, heap, wtime, synced, lock, pc, job, obs>>

ListAdd ==
    \E s \in -1..MaxTTL, item \in FileItems :
        /\ FDone(add_list_dict(file, item, s, now), "add_list_dict",
                 [seconds |-> s, data |-> <<item>>])
        /\ hist' = hist \cup {"add_list_dict"}
        /\ UNCHANGED <<now, seconds, alive, cache, heap, wtime, synced, lock, pc, job, obs>>

ListAddMany ==
    \E s \in -1..MaxTTL, data \in FileLists :
        /\ FDone(add_list_dict_many(file, data, s, now), "add_list_dict_many",
                 [seconds |-> s, data |-> data])
        /\ hist' = hist \cup {IF data = << >> THEN "add_list_dict_many_empty"
                              ELSE "add_list_dict_many"}
        /\ UNCHANGED <<now, seconds, alive, cache, heap, wtime, synced, lock, pc, job, obs>>

ListNext == Tick \/ Return \/ ListLoad \/ ListAdd \/ ListAddMany

SpecList == ListInit /\ [][ListNext]_vars

(* C24: on a path that starts absent and is touched only by add_list_dict,
   add_list_dict_many (any batch, the empty one included) and load_list_dict,
   at any clock values, load_list_dict never raises, and whatever the path
   holds is a document IO.load_list_dict accepts. *)
C24_ListFileLoadable ==
    /\ last.op = "load_list_dict" => last.exc = "none"
    /\ file.kind # "none" => IO_load_list_dict(file).exc = "none"

\* load_list_dict returned after both add operations and an empty batch were
\* called and the clock moved on
C24_Witness ==
    /\ last.op = "load_list_dict" /\ last.exc = "none"
    /\ {"add_list_dict", "add_list_dict_many", "add_list_dict_many_empty"} \subseteq hist
    /\ now >= 1

\* the keys a set/add call or a set_many/add_many batch names
ArgKeys(a) ==
    IF "key" \in DOMAIN a THEN {a.key} ELSE {a.items[i][1] : i \in 1..Len(a.items)}

(* C25: with TTL >= 0, a set, add, set_many or add_many leaves every record stored under a
   key the call does not name as it was, fields and cache_time, also when the
   caller passes a dict object it has passed before. *)
C25_KeysIndependent ==
    [][(/\ last.op = "idle" /\ seconds >= 0
        /\ last'.op \in {"set", "add", "set_many", "add_many"}) =>
          \A k \in DKeySet(cache) \ ArgKeys(last'.args) :
              /\ DHas(cache', k)
              /\ Deref(StNext, DGet(cache', k)) = Deref(St, DGet(cache, k))]_vars

(* ---- a HybridCache on a path to which the application writes objects --- *)
\* the JSON objects written: records with cache_time, without it, and empty
DictDocs ==
    { DictFile(<< >>),
      DictFile(<<<<"a", RecT("f", 0)>>, <<"b", RecT("g", 1)>>>>),
      DictFile(<<<<"a", Rec("f")>>>>),
      DictFile(<<<<"a", RecT("f", 1)>>, <<"b", EmptyRec>>>>) }

WriteDict ==
    \E doc \in DictDocs :
        /\ last.op = "idle"
        /\ file' = Written(doc, now)
        /\ UNCHANGED <<now, seconds, alive, cache, heap, wtime, synced, last, mtvars>>

LoadedNext ==
    \/ Tick \/ Return \/ WriteDict
    \/ Construct \/ Load
    \/ Get \/ Has \/ Prune \/ Size

SpecLoaded == FileInit /\ [][LoadedNext]_vars

\* the record carries no cache_time the expiry test could read
Untimed(r) == ~HasTime(r)

(* C26: on a store whose records all came from loading a JSON object (values
   with cache_time, without it, or empty), with TTL >= 0, the calls get, has,
   prune, size and save return without raising; and a record without
   cache_time that get or has reports absent is no longer in the mapping. *)
C26_LoadedStoreUsable ==
    (alive /\ seconds >= 0 /\ last.op \in {"get", "has", "prune", "size", "save"}) =>
        /\ last.exc = "none"
        /\ (/\ last.op \in {"get", "has"}
            /\ last.args.key \in DOMAIN last.was
            /\ Untimed(last.was[last.args.key])
            /\ last.ret \in {EmptyRec, FALSE}) => ~DHas(cache, last.args.key)

(* ------- threads that write batches to and save one HybridCache -------- *)
\* hist: whether a batch was half applied when save last reached _save
SaveInit ==
    /\ now = 0
    /\ seconds \in 0..MaxTTL
    /\ alive = TRUE
    /\ cache = << >>
    /\ heap = [o \in Objs |-> RecT("z", 0)]
    /\ file \in {NoFile, DictFile(<<<<"a", RecT("f", 0)>>>>)}
    /\ wtime = NoWrite
    /\ synced = FALSE
    /\ last = Idle
    /\ lock = [owner |-> "none", depth |-> 0]
    /\ pc = [t \in Threads |-> "idle"]
    /\ job = [t \in Threads |-> NoJob]
    /\ obs = {}
    /\ hist = [saves |-> 0, partial |-> FALSE]

\* save(prune): with self._lock: if prune: self._prune()
SaveBegin(t) ==
    \E prune \in BOOLEAN :
        /\ pc[t] = "idle"
        /\ CanAcquire(t)
        /\ lock' = Acquired(t)
        /\ pc' = [pc EXCEPT ![t] = "saving"]
        /\ MTStore(IF prune THEN _prune(St, seconds, now) ELSE Res(St, 0, "none"))
        /\ Observe(t, "save")
        /\ UNCHANGED <<now, seconds, alive, file, synced, last, job, hist>>

\* return self._save(): the file is written or removed, or the call raises;
\* leaving the with block releases the lock
SaveEnd(t) ==
    /\ pc[t] = "saving"
    /\ file' = _save(St, file).file
    /\ hist' = [saves |-> 1, partial |-> Partial(t)]
    /\ lock' = Released
    /\ pc' = [pc EXCEPT ![t] = "idle"]
    /\ UNCHANGED <<now, seconds, alive, cache, heap, wtime, synced, last, job, obs>>

SaveNext ==
    \/ MTTick
    \/ \E t \in Threads : MTBegin(t) \/ MTStep(t) \/ MTEnd(t)
    \/ \E t \in Threads : SaveBegin(t) \/ SaveEnd(t)

SpecSave == SaveInit /\ [][SaveNext]_vars

(* C27: save holds the store lock from its prune to the end of _save: it never
   starts, and never reaches the file, while another thread is inside
   set_many/add_many with part of its batch applied; while a thread is inside
   save no other thread changes the store; so what save leaves at the path is
   the whole mapping as it stood at one point between other threads' calls. *)
C27_SaveIsAtomic ==
    /\ "save" \notin obs
    /\ ~hist.partial
    /\ \A t \in Threads :
          pc[t] = "saving" =>
              /\ lock = [owner |-> t, depth |-> 1]
              /\ ~Partial(t)
              /\ \A u \in Threads \ {t} : ~ENABLED (MTStep(u) \/ MTBegin(u) \/ SaveBegin(u))

\* a thread is between save's prune and its _save on a store of two records,
\* the other thread is kept out, and a save has finished before
C27_Witness ==
    \E t \in Threads :
        /\ pc[t] = "saving"
        /\ Len(cache) = 2
        /\ hist.saves = 1
        /\ \A u \in Threads \ {t} : pc[u] = "idle" /\ ~CanAcquire(u)

(* C28: with TTL >= 0, get(key) and has(key) on a key that is present and not
   expired return the record (TRUE for has) and leave the mapping and every
   record, cache_time included, as they were; and a record that a set stored
   as a dict of the store's own at clock t is reported absent by every get and
   has at a clock >= t + TTL. *)
C28_ReadsDoNotExtend ==
    [][(last.op = "idle" /\ last'.op \in {"get", "has"} /\ seconds >= 0
        /\ DHas(cache, last'.args.key)) =>
          LET k == last'.args.key
              r == Deref(St, DGet(cache, k))
          IN  /\ Fresh(r) =>
                    /\ StNext = St
                    /\ last'.exc = "none"
                    /\ last'.ret = IF last'.op = "get" THEN r ELSE TRUE
              /\ (/\ wtime[k] # -1 /\ DGet(cache, k).obj = Own
                  /\ now >= wtime[k] + seconds) =>
                    /\ last'.ret = IF last'.op = "get" THEN EmptyRec ELSE FALSE
                    /\ ~DHas(cache', k)]_vars

\* get returned a valid record stamped at another clock value than now, and the
\* record is still there with that stamp
C28_Witness ==
    /\ last.op = "get" /\ seconds >= 0
    /\ last.args.key \in DOMAIN last.was
    /\ Fresh(last.was[last.args.key])
    /\ last.was[last.args.key][key_cache] # now
    /\ last.ret = last.was[last.args.key]
    /\ ViewMap(St) = last.was

(* C29: with TTL >= 0, an add without force on a key whose record is present
   and not expired returns normally and changes nothing: the mapping, the
   stored record's fields and cache_time (so the clock at which it expires)
   and the dict the caller passed, which gets no cache_time stamp. *)
C29_NoopAddChangesNothing ==
    [][(/\ last.op = "idle" /\ last'.op = "add" /\ seconds >= 0
        /\ ~last'.args.force
        /\ DHas(cache, last'.args.key)
        /\ Fresh(Deref(St, DGet(cache, last'.args.key)))) =>
          LET k == last'.args.key
              v == last'.args.value
          IN  /\ last'.exc = "none"
              /\ cache' = cache
              /\ Deref(StNext, DGet(cache', k)) = Deref(St, DGet(cache, k))
              /\ wtime' = wtime
              /\ v.obj # Own => heap'[v.obj] = heap[v.obj]]_vars

\* an add without force passed the caller's long-lived dict for a valid key:
\* the store is as before and that dict still carries its old stamp
C29_Witness ==
    /\ last.op = "add" /\ seconds >= 0 /\ ~last.args.force
    /\ last.args.key \in DOMAIN last.was
    /\ Fresh(last.was[last.args.key])
    /\ last.args.value.obj # Own
    /\ heap[last.args.value.obj][key_cache] # now
    /\ ViewMap(St) = last.was

(* ------ TTL 0: a MemoryCache, and FileCache calls on a written path ----- *)
ZeroInit ==
    /\ now = 0
    /\ seconds = 0
    /\ alive = FALSE
    /\ cache = << >>
    /\ heap = [o \in Objs |-> RecT("z", 0)]
    /\ file = Absent
    /\ wtime = NoWrite
    /\ synced = FALSE
    /\ last = Idle
    /\ lock = 0 /\ pc = 0 /\ job = 0 /\ obs = 0 /\ hist = 0

\* MemoryCache.__init__: self._cache = {}; nothing is loaded
MemConstruct ==
    /\ Done(Res([c |-> << >>, h |-> heap, w |-> NoWrite], 0, "none"), "init", << >>)
    /\ alive' = TRUE
    /\ UNCHANGED <<now, seconds, file, mtvars>>

ZeroNext ==
    \/ Tick \/ Return \/ MemConstruct
    \/ Set \/ Add \/ Get \/ Has \/ Size
    \/ FileWrite \/ LoadListDict \/ LoadDictDict \/ AddListDict \/ AddDictDict

SpecZero == ZeroInit /\ [][ZeroNext]_vars

\* every record of the document carries a cache_time at or before the clock
StampedByNow(f) ==
    \A i \in 1..Len(f.data) :
        LET r == IF f.kind = "list" THEN f.data[i] ELSE f.data[i][2] IN
        HasTime(r) /\ r[key_cache] <= now

(* C30: with TTL 0 a record is expired at the instant it is written.  On a
   MemoryCache with seconds = 0: get and has report every key absent and
   leave it out of the mapping, a record stamped at this very clock value
   included; size() returns 0; add, with or without force, always stores the
   value stamped now.  FileCache load_list_dict / load_dict_dict called with
   seconds = 0 on a file their loader accepts whose records are all stamped at
   or before the clock return no record. *)
C30_ZeroTTLExpiresAtOnce ==
    /\ (alive /\ seconds = 0) =>
          /\ last.op = "get" =>
                (last.exc = "none" /\ last.ret = EmptyRec /\ ~DHas(cache, last.args.key))
          /\ last.op = "has" =>
                (last.exc = "none" /\ last.ret = FALSE /\ ~DHas(cache, last.args.key))
          /\ (last.op = "size" /\ last.args.prune) =>
                (last.exc = "none" /\ last.ret = 0 /\ Len(cache) = 0)
          /\ last.op = "add" =>
                /\ last.exc = "none"
                /\ DHas(cache, last.args.key)
                /\ wtime[last.args.key] = now
                /\ ViewMap(St)[last.args.key][key_cache] = now
                /\ ViewMap(St)[last.args.key]["v"] = Deref(St, last.args.value)["v"]
    /\ (/\ last.op \in {"load_list_dict", "load_dict_dict"}
        /\ last.args.seconds = 0
        /\ StampedByNow(last.was)
        /\ IF last.op = "load_list_dict" THEN GoodList(last.was) ELSE GoodDict(last.was)) =>
          (last.exc = "none" /\ last.ret = << >> /\ file = last.was)

\* get, right after a set at this clock value, reported the key absent and the
\* record is gone
C30_Witness ==
    /\ alive /\ seconds = 0
    /\ last.op = "get" /\ last.ret = EmptyRec
    /\ last.args.key \in DOMAIN last.was
    /\ last.was[last.args.key][key_cache] = now
    /\ ~DHas(cache, last.args.key)
    /\ now >= 1

====
